---- MODULE Spec2Model ----
(***************************************************************************)
(* Incremental catalog synchronisation of bank-repossessed asset listings. *)
(* The registry (Directus) holds links, records and images; a sync flow    *)
(* discovers catalog links, registers the new ones, scrapes the unscraped  *)
(* ones in batches and persists the results.                               *)
(***************************************************************************)
EXTENDS Integers, Sequences, FiniteSets, TLC

\* ------------------------------------------------------------------ bounds
MaxUrl == 2        \* catalog URLs are 1..MaxUrl
Backlog == 5       \* older registered links, MaxUrl+1..MaxUrl+Backlog
MaxRuns == 2       \* sync flow runs per behaviour
MaxFaults == 1     \* registry calls / extractions that fail, per behaviour

MaxPages == 2      \* catalog pages a site serves per category
MaxPerPage == 2    \* links on one catalog page
MaxCollected == 4  \* links collected by one discovery
MaxImgs == 3       \* images extracted from one detail page

\* ------------------------------------------------------- program constants
batch_size == 5
retries == 3
ScotiabankCategories == 3
BancoGeneralBases == 2

Company == "caja-de-ahorros"

CatalogUrls == 1..MaxUrl
AllUrls == 1..(MaxUrl + Backlog)

\* HTTP outcomes of one request: 0 stands for a transport exception.
Statuses == {0, 200, 201, 204, 500}
Is2xx(st) == st >= 200 /\ st <= 299

Images == {"A", "B", "C"}
Sites == {"scotiabank", "banesco", "banco-general", "banco-nacional"}

VARIABLES
    \* registry (shared, persistent)
    links, records, images, record_data,
    \* sync flow locals
    pc, run, faults,
    scraped_links_set, existing_links, new_links, unscraped_links,
    i, fut, done, handled, cur, attempt, pd_images, total_processed,
    \* the links whose extraction came back empty or failed in the run before
    carried,
    \* what the run has asked of the registry
    save_ret, mark_ret, link_posts, img_req,
    \* the completion ratio a run logs at its end
    ratio,
    \* reprocess_stale_links locals
    s_pc, s_shape, s_list, s_idx, s_images, s_existing, s_attempt,
    s_total_processed, s_total_failed,
    \* what the stale run has called, and what the calls returned
    s_calls, s_update_ret, s_fresh_ret,
    \* link discovery of one site (fetch_all_*_urls)
    d_site, d_pc, d_base, d_page, d_page_links, d_all, d_seen, d_out, d_last,
    \* whether time.sleep has run since the latest page request, and whether
    \* it had run between the latest page request and the one before it
    d_slept, d_gap,
    \* one persistence call on one extracted image list
    m_in, m_existing, m_pc, m_kind, m_req, m_inserted, m_ret

regVars == <<links, records, images, record_data>>
flowVars == <<pc, run, faults, scraped_links_set, existing_links, new_links,
              unscraped_links, i, fut, done, handled, cur, attempt, pd_images,
              total_processed, save_ret, mark_ret, link_posts, img_req, carried>>
discVars == <<d_site, d_pc, d_base, d_page, d_page_links, d_all, d_seen, d_out,
              d_last, d_slept, d_gap>>
imgVars == <<m_in, m_existing, m_pc, m_kind, m_req, m_inserted, m_ret>>
flowLocals == <<pc, scraped_links_set, existing_links, new_links,
                unscraped_links, i, fut, done, handled, cur, attempt, pd_images,
                total_processed, save_ret, mark_ret, link_posts, img_req, carried>>
staleVars == <<s_pc, s_shape, s_list, s_idx, s_images, s_existing, s_attempt,
               s_total_processed, s_total_failed, s_calls, s_update_ret, s_fresh_ret>>
auxVars == <<discVars, imgVars, staleVars>>
vars == <<regVars, flowVars, ratio, auxVars>>

\* ------------------------------------------------------------ pure helpers
Range(s) == {s[k] : k \in DOMAIN s}

SeqsUpTo(S, n) == UNION {[1..m -> S] : m \in 0..n}

Min(S) == CHOOSE m \in S : \A x \in S : m <= x

RECURSIVE SortedSeq(_)
SortedSeq(S) == IF S = {} THEN <<>>
                ELSE <<Min(S)>> \o SortedSeq(S \ {Min(S)})

\* every listing of a set as a list without repeats: list(a_set)
Listings(S) == {s \in [1..Cardinality(S) -> S] : Range(s) = S}

\* list(dict.fromkeys(xs)): first occurrences, in order
RECURSIVE DedupFrom(_, _)
DedupFrom(xs, acc) ==
    IF xs = <<>> THEN acc
    ELSE DedupFrom(Tail(xs),
                   IF Head(xs) \in Range(acc) THEN acc ELSE Append(acc, Head(xs)))

Reverse(xs) == [k \in DOMAIN xs |-> xs[Len(xs) + 1 - k]]

Dedup_KeepLast(xs) == Reverse(DedupFrom(Reverse(xs), <<>>))

Dedup(xs) == DedupFrom(xs, <<>>)

\* scraped_links_set - existing_links
Reconcile_NoDiff(discovered, existing) == discovered

Reconcile(discovered, existing) == discovered \ existing

\* the images the detail page of link u shows (page content, in page order)
PageImages(u) == IF u % 3 = 1 THEN <<"A", "B", "A">>
                 ELSE IF u % 3 = 2 THEN <<>>
                 ELSE <<"B">>

\* save_property_data: duplicates of source_url removed, first kept
SaveImageItems(imgs) == Dedup(imgs)

\* global-bank.py save_property_data: the image list is sent as extracted
GbSaveImageItems(imgs) == imgs

\* update_property_data: the images whose source_url is not known yet
UpdateImageItems_NoFilter(imgs, existing) == imgs

UpdateImageItems(imgs, existing) == SelectSeq(imgs, LAMBDA x : x \notin existing)

\* One attempt of a persistence call on image list imgs: rec and img are the
\* statuses of the record request and of the image request.
Outcome(recOk, recStored, send, items, rec, img) ==
    [send |-> send,
     items |-> IF send THEN items ELSE <<>>,
     rec_stored |-> recStored,
     img_stored |-> send /\ Is2xx(img),
     raised |-> rec = 0 \/ (send /\ img = 0),
     ret |-> IF rec = 0 \/ (send /\ img = 0) THEN "raised"
             ELSE IF recOk THEN "true" ELSE "false"]

SaveOnce_NoStatusCheck(imgs, rec, img) ==
    Outcome(TRUE, Is2xx(rec), imgs # <<>>, SaveImageItems(imgs), rec, img)

SaveOnce(imgs, rec, img) ==
    Outcome(rec \in {200, 201}, Is2xx(rec),
            rec \in {200, 201} /\ imgs # <<>>, SaveImageItems(imgs), rec, img)

GbSaveOnce(imgs, rec, img) ==
    Outcome(rec \in {200, 201}, Is2xx(rec),
            rec \in {200, 201} /\ imgs # <<>>, GbSaveImageItems(imgs), rec, img)

UpdateOnce(imgs, existing, rec, img) ==
    Outcome(rec = 200, Is2xx(rec),
            rec = 200 /\ imgs # <<>> /\ UpdateImageItems(imgs, existing) # <<>>,
            UpdateImageItems(imgs, existing), rec, img)

\* `if save_success:` before mark_link_as_scraped
ShouldMark_Always(save_success) == TRUE

ShouldMark(save_success) == save_success

\* prefect.futures.wait(scraping_futures): returns once every future is terminal
Terminal(f) == f \in {"data", "empty", "failed"}

WaitReady_NoBarrier(batch) == TRUE

WaitReady_Any(batch) == \E k \in batch : Terminal(fut[k])

WaitReady(batch) == \A k \in batch : Terminal(fut[k])

\* `if future.state.is_completed():` and `if property_data:`
HasData_Always(f) == TRUE

HasData(f) == f = "data"

\* an item whose task failed or returned None is logged; the loop goes on
OnFailedItem_Abort == "aborted"

OnFailedItem == "handle"

\* unscraped_links[i : i + batch_size], as 1-based positions
Batch_Overlap(start) ==
    {k \in DOMAIN unscraped_links : k >= start /\ k <= start + batch_size}

Batch_Whole(start) == DOMAIN unscraped_links

Batch(start) == {k \in DOMAIN unscraped_links : k > start /\ k <= start + batch_size}

NoRow == [reg |-> FALSE, is_scraped |-> FALSE, is_stale |-> FALSE, company |-> ""]

\* a link row as the insert of add_new_links_to_directus leaves it
NewRow(co) == [reg |-> TRUE, is_scraped |-> FALSE, is_stale |-> FALSE, company |-> co]

Idle == [u \in AllUrls |-> "none"]

NoReq == [kind |-> "none", link_id |-> 0, items |-> <<>>]

\* a call that meets a failing response uses up one unit of the fault budget
Fault(st) == IF st = 200 THEN 0 ELSE 1

\* get_existing_links_from_directus raises and the flow does not catch it
\* the statement after the reconcile is `await add_new_links_to_directus(...)`,
\* the read of the unscraped links comes after it
AfterReconcile_ReadFirst == "unscraped"

AfterReconcile == "add"

OnExistingLinksError_Ignore == "add"

OnExistingLinksError == "aborted"

\* `if not new_links: return` of add_new_links_to_directus
SkipInsert_Never(nl) == FALSE

SkipInsert(nl) == nl = <<>>

\* the JSON body of the link insert
LinkItems_Scraped(nl, co) ==
    [k \in DOMAIN nl |-> [link |-> nl[k], is_scraped |-> TRUE, company |-> co]]

LinkItems(nl, co) ==
    [k \in DOMAIN nl |-> [link |-> nl[k], is_scraped |-> FALSE, company |-> co]]

\* `if not unscraped_links: return` (and the same test on the stale list)
NothingToDo_Never(xs) == FALSE

NothingToDo(xs) == xs = <<>>

\* round((processed / total) * 100, 2), in hundredths of a percent; a division
\* by zero raises ZeroDivisionError
NoRatio == [kind |-> "none", pct |-> 0]

Ratio(processed, total) ==
    IF total = 0 THEN [kind |-> "ZeroDivisionError", pct |-> 0]
    ELSE [kind |-> "value", pct |-> (20000 * processed + total) \div (2 * total)]

\* ------------------------------------------------------------------- Init
FlowStart ==
    /\ pc = "start"
    /\ faults = 0
    /\ scraped_links_set = {}
    /\ existing_links = {}
    /\ new_links = <<>>
    /\ unscraped_links = <<>>
    /\ i = 0
    /\ fut = <<>>
    /\ done = {}
    /\ handled = {}
    /\ cur = 0
    /\ attempt = 0
    /\ pd_images = <<>>
    /\ total_processed = 0
    /\ save_ret = Idle
    /\ mark_ret = Idle
    /\ link_posts = <<>>
    /\ img_req = NoReq
    /\ ratio = NoRatio
    /\ carried = {}

RegistryEmpty ==
    /\ links = [u \in AllUrls |-> NoRow]
    /\ records = [u \in AllUrls |-> 0]
    /\ images = [u \in AllUrls |-> <<>>]
    /\ record_data = [u \in AllUrls |-> "none"]

DiscIdle ==
    /\ d_site = "none"
    /\ d_pc = "idle"
    /\ d_base = 0
    /\ d_page = 0
    /\ d_page_links = <<>>
    /\ d_all = <<>>
    /\ d_seen = <<>>
    /\ d_out = <<>>
    /\ d_last = "start"
    /\ d_slept = FALSE
    /\ d_gap = FALSE

StaleIdle ==
    /\ s_pc = "idle"
    /\ s_shape = [u \in AllUrls |-> "ok"]
    /\ s_list = <<>>
    /\ s_idx = 0
    /\ s_images = <<>>
    /\ s_existing = {}
    /\ s_attempt = 0
    /\ s_total_processed = 0
    /\ s_total_failed = 0
    /\ s_calls = <<>>
    /\ s_update_ret = Idle
    /\ s_fresh_ret = Idle

ImgIdle ==
    /\ m_in = <<>>
    /\ m_existing = {}
    /\ m_pc = "idle"
    /\ m_kind = "none"
    /\ m_req = <<>>
    /\ m_inserted = <<>>
    /\ m_ret = "none"

Init ==
    /\ RegistryEmpty
    /\ run = 1
    /\ FlowStart
    /\ StaleIdle
    /\ DiscIdle
    /\ ImgIdle

\* ---------------------------------------------------------- sync flow steps
\* scraped_links = fetch_all_urls(); scraped_links_set = set(scraped_links)
FetchAllUrls(Cats) ==
    /\ pc = "start"
    /\ \E ok \in BOOLEAN :
         IF ok
         THEN \E cat \in Cats :
                /\ scraped_links_set' = Range(Dedup(cat))
                /\ pc' = "existing"
                /\ faults' = faults
         ELSE /\ faults < MaxFaults
              /\ faults' = faults + 1
              /\ pc' = "aborted"
              /\ UNCHANGED scraped_links_set
    /\ UNCHANGED <<auxVars, carried, ratio, regVars, run, existing_links, new_links, unscraped_links, i, fut,
                   done, handled, cur, attempt, pd_images, total_processed,
                   save_ret, mark_ret, link_posts, img_req>>

\* existing_links = await get_existing_links_from_directus(company)
\* new_links = list(scraped_links_set - existing_links)
GetExistingLinks ==
    /\ pc = "existing"
    /\ \E st \in Statuses :
        /\ faults + Fault(st) <= MaxFaults
        /\ faults' = faults + Fault(st)
        /\ IF st # 200
           THEN /\ pc' = OnExistingLinksError
                /\ UNCHANGED <<existing_links, new_links>>
           ELSE /\ existing_links' =
                     {u \in AllUrls : links[u].reg /\ links[u].company = Company}
                /\ \E nl \in Listings(Reconcile(scraped_links_set, existing_links')) :
                     new_links' = nl
                /\ pc' = AfterReconcile
    /\ UNCHANGED <<auxVars, carried, ratio, regVars, run, scraped_links_set, unscraped_links, i, fut,
                   done, handled, cur, attempt, pd_images, total_processed,
                   save_ret, mark_ret, link_posts, img_req>>

\* await add_new_links_to_directus(new_links, company)
AddNewLinks ==
    /\ pc = "add"
    /\ IF SkipInsert(new_links)
       THEN /\ pc' = "unscraped"
            /\ UNCHANGED <<links, link_posts, faults>>
       ELSE \E st \in Statuses :
            LET items == LinkItems(new_links, Company) IN
            /\ faults + Fault(st) <= MaxFaults
            /\ faults' = faults + Fault(st)
            /\ link_posts' = Append(link_posts, items)
            /\ links' = IF Is2xx(st)
                        THEN [u \in AllUrls |->
                                IF \E k \in DOMAIN items : items[k].link = u
                                THEN LET it == items[CHOOSE k \in DOMAIN items :
                                                      items[k].link = u]
                                     IN [reg |-> TRUE, is_scraped |-> it.is_scraped,
                                         is_stale |-> FALSE, company |-> it.company]
                                ELSE links[u]]
                        ELSE links
            /\ pc' = IF st = 200 THEN "unscraped" ELSE "aborted"
    /\ UNCHANGED <<auxVars, carried, ratio, records, images, record_data, run, scraped_links_set,
                   existing_links, new_links,
                   unscraped_links, i, fut, done, handled, cur, attempt, pd_images,
                   total_processed, save_ret, mark_ret, img_req>>

\* filter[company][_eq]={company}&filter[is_scraped][_eq]=false
UnscrapedOf_AllLinks(co) ==
    {u \in AllUrls : links[u].reg /\ links[u].company = co}

UnscrapedOf(co) ==
    {u \in AllUrls : links[u].reg /\ links[u].company = co /\ ~links[u].is_scraped}

\* unscraped_links = await get_unscraped_links_from_directus(company)
\* if not unscraped_links: return
GetUnscrapedLinks ==
    /\ pc = "unscraped"
    /\ \E st \in Statuses :
        /\ faults + Fault(st) <= MaxFaults
        /\ faults' = faults + Fault(st)
        /\ IF st # 200
           THEN /\ pc' = "aborted"
                /\ UNCHANGED <<unscraped_links, fut>>
           ELSE /\ unscraped_links' = SortedSeq(UnscrapedOf(Company))
                /\ fut' = [k \in DOMAIN unscraped_links' |-> "none"]
                /\ pc' = IF NothingToDo(unscraped_links') THEN "done" ELSE "batch"
    /\ i' = 0
    /\ total_processed' = 0
    /\ UNCHANGED <<auxVars, carried, ratio, regVars, run, scraped_links_set, existing_links, new_links,
                   done, handled, cur, attempt, pd_images,
                   save_ret, mark_ret, link_posts, img_req>>

\* scraping_futures = scrape_property_page_caja_de_ahorros.map(batch)
MapBatch ==
    /\ pc = "batch"
    /\ fut' = [k \in DOMAIN fut |-> IF k \in Batch(i) THEN "running" ELSE fut[k]]
    /\ pc' = "wait"
    /\ UNCHANGED <<auxVars, carried, ratio, regVars, run, faults, scraped_links_set, existing_links, new_links,
                   unscraped_links, i, done, handled, cur, attempt, pd_images,
                   total_processed, save_ret, mark_ret, link_posts, img_req>>

\* one extraction task ends: property_data, None (the extractor caught an
\* exception) or a failed task run
WorkerFinish(k) ==
    /\ k \in DOMAIN fut
    /\ fut[k] = "running"
    /\ \E o \in {"data", "empty", "failed"} :
        /\ o # "data" => faults < MaxFaults
        /\ faults' = IF o = "data" THEN faults ELSE faults + 1
        /\ fut' = [fut EXCEPT ![k] = o]
    /\ UNCHANGED <<auxVars, carried, ratio, regVars, pc, run, scraped_links_set, existing_links, new_links,
                   unscraped_links, i, done, handled, cur, attempt, pd_images,
                   total_processed, save_ret, mark_ret, link_posts, img_req>>

\* done, not_done = wait(scraping_futures)
Wait ==
    /\ pc = "wait"
    /\ WaitReady(Batch(i))
    /\ done' = {k \in Batch(i) : Terminal(fut[k])}
    /\ pc' = "handle"
    /\ UNCHANGED <<auxVars, carried, ratio, regVars, run, faults, scraped_links_set, existing_links, new_links,
                   unscraped_links, i, fut, handled, cur, attempt, pd_images,
                   total_processed, save_ret, mark_ret, link_posts, img_req>>

\* for future in done: if future.state.is_completed(): property_data = future.result()
HandleFuture(k) ==
    /\ pc = "handle"
    /\ k \in done \ handled
    /\ IF HasData(fut[k])
       THEN /\ pc' = "save"
            /\ cur' = k
            /\ attempt' = 0
            /\ pd_images' = PageImages(unscraped_links[k])
            /\ UNCHANGED handled
       ELSE /\ handled' = handled \cup {k}
            /\ pc' = OnFailedItem
            /\ UNCHANGED <<cur, attempt, pd_images>>
    /\ UNCHANGED <<auxVars, carried, ratio, regVars, run, faults, scraped_links_set, existing_links, new_links,
                   unscraped_links, i, fut, done, total_processed,
                   save_ret, mark_ret, link_posts, img_req>>

\* one attempt of save_property_data (task with retries=3); the images are
\* popped from property_data by the first attempt
SaveAttempt ==
    /\ pc = "save"
    /\ LET u == unscraped_links[cur] IN
       \E rec \in Statuses, img \in Statuses :
          LET o == SaveOnce(pd_images, rec, img)
              bad == rec # 200 \/ (o.send /\ img # 200)
              nf == IF attempt = 0 /\ bad THEN 1 ELSE 0
              marks == o.ret # "raised" /\ ShouldMark(o.ret = "true")
          IN
          /\ o.send \/ img = 200
          /\ faults + nf <= MaxFaults
          /\ faults' = faults + nf
          /\ pd_images' = <<>>
          /\ records' = [records EXCEPT ![u] = IF o.rec_stored THEN @ + 1 ELSE @]
          /\ record_data' = [record_data EXCEPT ![u] = IF o.rec_stored THEN "page" ELSE @]
          /\ images' = [images EXCEPT ![u] = IF o.img_stored THEN @ \o o.items ELSE @]
          /\ img_req' = IF o.send
                        THEN [kind |-> "save", link_id |-> u, items |-> o.items]
                        ELSE img_req
          /\ IF o.raised /\ attempt < retries
             THEN /\ attempt' = attempt + 1
                  /\ UNCHANGED <<pc, save_ret, handled>>
             ELSE /\ save_ret' = [save_ret EXCEPT ![u] = o.ret]
                  /\ pc' = IF marks THEN "mark" ELSE "handle"
                  /\ handled' = IF marks THEN handled ELSE handled \cup {cur}
                  /\ UNCHANGED attempt
    /\ UNCHANGED <<auxVars, carried, ratio, links, run, scraped_links_set, existing_links, new_links,
                   unscraped_links, i, fut, done, cur, total_processed,
                   mark_ret, link_posts>>

\* the PATCH body of mark_link_as_scraped: json={"is_scraped": True}
ScrapedRow_Fresh(row) == [row EXCEPT !.is_scraped = TRUE, !.is_stale = FALSE]

ScrapedRow(row) == [row EXCEPT !.is_scraped = TRUE]

\* await mark_link_as_scraped(link_id); total_processed += 1
MarkScraped ==
    /\ pc = "mark"
    /\ LET u == unscraped_links[cur] IN
       \E st \in Statuses :
        /\ faults + Fault(st) <= MaxFaults
        /\ faults' = faults + Fault(st)
        /\ links' = [links EXCEPT ![u] = IF Is2xx(st) THEN ScrapedRow(@) ELSE @]
        /\ mark_ret' = [mark_ret EXCEPT ![u] =
                          IF st = 0 THEN "raised"
                          ELSE IF st = 200 THEN "true" ELSE "false"]
        /\ total_processed' = IF st = 0 THEN total_processed
                              ELSE total_processed + 1
    /\ handled' = handled \cup {cur}
    /\ pc' = "handle"
    /\ UNCHANGED <<auxVars, carried, ratio, records, images, record_data, run, scraped_links_set,
                   existing_links, new_links,
                   unscraped_links, i, fut, done, cur, attempt, pd_images,
                   save_ret, link_posts, img_req>>

\* end of `for future in done`; next i of range(0, len(unscraped_links), batch_size)
EndBatch ==
    /\ pc = "handle"
    /\ done \subseteq handled
    /\ i' = i + batch_size
    /\ pc' = IF i' >= Len(unscraped_links) THEN "done" ELSE "batch"
    /\ ratio' = IF i' >= Len(unscraped_links)
                THEN Ratio(total_processed, Len(unscraped_links))
                ELSE ratio
    /\ UNCHANGED <<auxVars, carried, regVars, run, faults, scraped_links_set, existing_links, new_links,
                   unscraped_links, fut, done, handled, cur, attempt, pd_images,
                   total_processed, save_ret, mark_ret, link_posts, img_req>>

\* the scheduler starts the flow again
NextRun ==
    /\ pc \in {"done", "aborted"}
    /\ run < MaxRuns
    /\ run' = run + 1
    /\ pc' = "start"
    /\ scraped_links_set' = {}
    /\ existing_links' = {}
    /\ new_links' = <<>>
    /\ unscraped_links' = <<>>
    /\ i' = 0
    /\ fut' = <<>>
    /\ done' = {}
    /\ handled' = {}
    /\ cur' = 0
    /\ attempt' = 0
    /\ pd_images' = <<>>
    /\ total_processed' = 0
    /\ save_ret' = Idle
    /\ mark_ret' = Idle
    /\ link_posts' = <<>>
    /\ img_req' = NoReq
    /\ ratio' = NoRatio
    /\ carried' = {unscraped_links[k] : k \in {j \in DOMAIN fut : fut[j] \in {"empty", "failed"}}}
    /\ UNCHANGED <<auxVars, regVars, faults>>

Catalogs == SeqsUpTo(CatalogUrls, MaxUrl + 1)

Next ==
    \/ FetchAllUrls(Catalogs)
    \/ GetExistingLinks
    \/ AddNewLinks
    \/ GetUnscrapedLinks
    \/ MapBatch
    \/ \E k \in AllUrls : WorkerFinish(k)
    \/ Wait
    \/ \E k \in AllUrls : HandleFuture(k)
    \/ SaveAttempt
    \/ MarkScraped
    \/ EndBatch
    \/ NextRun

Spec == Init /\ [][Next]_vars

\* the deployment starts the flow over and over; the runs after run MaxRuns
\* are not told apart
RunAgain ==
    /\ pc \in {"done", "aborted"}
    /\ run = MaxRuns
    /\ pc' = "start"
    /\ scraped_links_set' = {}
    /\ existing_links' = {}
    /\ new_links' = <<>>
    /\ unscraped_links' = <<>>
    /\ i' = 0
    /\ fut' = <<>>
    /\ done' = {}
    /\ handled' = {}
    /\ cur' = 0
    /\ attempt' = 0
    /\ pd_images' = <<>>
    /\ total_processed' = 0
    /\ save_ret' = Idle
    /\ mark_ret' = Idle
    /\ link_posts' = <<>>
    /\ img_req' = NoReq
    /\ ratio' = NoRatio
    /\ carried' = {unscraped_links[k] : k \in {j \in DOMAIN fut : fut[j] \in {"empty", "failed"}}}
    /\ UNCHANGED <<auxVars, regVars, run, faults>>

NextLive ==
    \/ Next
    \/ RunAgain

\* sync runs without end, each one carried through; the calls that fail are
\* at most MaxFaults, so from some run on every call succeeds
LiveSpec == Init /\ [][NextLive]_vars /\ WF_vars(NextLive)

\* ------------------------------------------- a run over a backlog of links
\* Links registered by earlier runs and not scraped yet: more than one batch.
InitBacklog ==
    /\ links = [u \in AllUrls |-> IF u > MaxUrl THEN NewRow(Company) ELSE NoRow]
    /\ records = [u \in AllUrls |-> 0]
    /\ images = [u \in AllUrls |-> <<>>]
    /\ record_data = [u \in AllUrls |-> "none"]
    /\ run = 1
    /\ FlowStart
    /\ StaleIdle
    /\ DiscIdle
    /\ ImgIdle

BacklogCatalogs == SeqsUpTo({1}, 1)

NextBacklog ==
    \/ FetchAllUrls(BacklogCatalogs)
    \/ GetExistingLinks
    \/ AddNewLinks
    \/ GetUnscrapedLinks
    \/ MapBatch
    \/ \E k \in AllUrls : WorkerFinish(k)
    \/ Wait
    \/ \E k \in AllUrls : HandleFuture(k)
    \/ SaveAttempt
    \/ MarkScraped
    \/ EndBatch

BatchSpec == InitBacklog /\ [][NextBacklog]_vars


\* ------------------------------------------------------------ link discovery
\* What one catalog page request yields: a request error, the site's "no
\* results" page, or the candidate links of the page (possibly none).
PageResponses ==
    {[kind |-> "error", links |-> <<>>], [kind |-> "none", links |-> <<>>]}
    \cup {[kind |-> "page", links |-> ls] : ls \in SeqsUpTo(CatalogUrls, MaxPerPage)}

LinksOf(resp) == resp.links

\* `if soup.select_one(".error-404")`, "No se encontraron propiedades"
NoResultsMarker(resp) == resp.kind = "none"

\* `if not property_links: break`, `if len(page_links) == 0: break`
NoLinks_Never(resp) == FALSE

NoLinks(resp) == LinksOf(resp) = <<>>

\* a site has at most MaxPages pages of links per category; a request for a
\* later page is answered with an empty page, the "no results" page or an error
Served(resp) ==
    /\ d_page > MaxPages => resp.links = <<>>
    /\ Len(d_seen) + Len(LinksOf(resp)) <= MaxCollected

\* page_num += 1; the site answers every page past its last one alike, so the
\* numbers past it are kept in a window of two
PageCap == MaxPages + 2

NextPage(p) == IF p >= PageCap THEN MaxPages + 1 ELSE p + 1

\* banco-general.py: `if page_num > 1: time.sleep(2)` before the request
PauseBefore(page_num) == page_num > 1

InitDiscover ==
    /\ RegistryEmpty
    /\ run = 1
    /\ FlowStart
    /\ StaleIdle
    /\ ImgIdle
    /\ d_site \in Sites
    /\ d_pc = "fetch"
    /\ d_base = 1
    /\ d_page = 1
    /\ d_page_links = <<>>
    /\ d_all = <<>>
    /\ d_seen = <<>>
    /\ d_out = <<>>
    /\ d_last = "start"
    /\ d_slept = FALSE
    /\ d_gap = FALSE

\* scotiabank.py fetch_all_urls: one page per category, any error raises
ScotiabankFetch ==
    /\ d_site = "scotiabank"
    /\ d_pc = "fetch"
    /\ \E resp \in PageResponses :
        /\ Served(resp)
        /\ d_last' = resp.kind
        /\ d_gap' = d_slept
        /\ d_slept' = FALSE
        /\ IF resp.kind = "error"
           THEN /\ d_pc' = "raised"
                /\ UNCHANGED <<d_base, d_all, d_seen, d_out>>
           ELSE /\ d_all' = d_all \o LinksOf(resp)
                /\ d_seen' = d_seen \o LinksOf(resp)
                /\ IF d_base = ScotiabankCategories
                   THEN /\ d_out' = Dedup(d_all')
                        /\ d_pc' = "returned"
                        /\ UNCHANGED d_base
                   ELSE /\ d_base' = d_base + 1
                        /\ UNCHANGED <<d_pc, d_out>>
    /\ UNCHANGED <<regVars, flowVars, ratio, staleVars, imgVars, d_site, d_page, d_page_links>>

\* banesco.py fetch_all_banesco_urls: pages until a 404 page, a page without
\* links or an error
BanescoFetch ==
    /\ d_site = "banesco"
    /\ d_pc = "fetch"
    /\ \E resp \in PageResponses :
        /\ Served(resp)
        /\ d_last' = resp.kind
        /\ d_gap' = d_slept
        /\ d_slept' = (LinksOf(resp) # <<>>)
        /\ IF resp.kind = "error" \/ NoResultsMarker(resp) \/ NoLinks(resp)
           THEN /\ d_out' = Dedup(d_all)
                /\ d_pc' = "returned"
                /\ UNCHANGED <<d_page, d_all, d_seen>>
           ELSE /\ d_all' = d_all \o LinksOf(resp)
                /\ d_seen' = d_seen \o LinksOf(resp)
                /\ d_page' = d_page + 1
                /\ UNCHANGED <<d_pc, d_out>>
    /\ UNCHANGED <<regVars, flowVars, ratio, staleVars, imgVars, d_site, d_base, d_page_links>>

\* banco-general.py fetch_all_banco_general_urls: two base URLs, each paged
\* until a page without links; an error skips to the next page
BancoGeneralFetch ==
    /\ d_site = "banco-general"
    /\ d_pc = "fetch"
    /\ \E resp \in PageResponses :
        /\ Served(resp)
        /\ d_last' = resp.kind
        /\ d_gap' = (d_slept \/ PauseBefore(d_page))
        /\ d_slept' = FALSE
        /\ IF resp.kind = "error"
           THEN /\ d_page' = NextPage(d_page)
                /\ UNCHANGED <<d_pc, d_base, d_page_links, d_all, d_seen, d_out>>
           ELSE IF NoResultsMarker(resp) \/ NoLinks(resp)
           THEN /\ d_all' = d_all \o Dedup(d_page_links)
                /\ IF d_base = BancoGeneralBases
                   THEN /\ d_out' = Dedup(d_all')
                        /\ d_pc' = "returned"
                        /\ UNCHANGED <<d_base, d_page, d_page_links>>
                   ELSE /\ d_base' = d_base + 1
                        /\ d_page' = 1
                        /\ d_page_links' = <<>>
                        /\ UNCHANGED <<d_pc, d_out>>
                /\ UNCHANGED d_seen
           ELSE /\ d_page_links' = d_page_links \o LinksOf(resp)
                /\ d_seen' = d_seen \o LinksOf(resp)
                /\ d_page' = NextPage(d_page)
                /\ UNCHANGED <<d_pc, d_base, d_all, d_out>>
    /\ UNCHANGED <<regVars, flowVars, ratio, staleVars, imgVars, d_site>>

\* banco_nacional.py fetch_all_urls: pages until one without links; any error
\* is logged and raised again
BancoNacionalFetch ==
    /\ d_site = "banco-nacional"
    /\ d_pc = "fetch"
    /\ \E resp \in PageResponses :
        /\ Served(resp)
        /\ d_last' = resp.kind
        /\ d_gap' = d_slept
        /\ d_slept' = FALSE
        /\ IF resp.kind = "error"
           THEN /\ d_pc' = "raised"
                /\ UNCHANGED <<d_page, d_all, d_seen, d_out>>
           ELSE IF NoLinks(resp)
           THEN /\ d_out' = Dedup(d_all)
                /\ d_pc' = "returned"
                /\ UNCHANGED <<d_page, d_all, d_seen>>
           ELSE /\ d_all' = d_all \o LinksOf(resp)
                /\ d_seen' = d_seen \o LinksOf(resp)
                /\ d_page' = d_page + 1
                /\ UNCHANGED <<d_pc, d_out>>
    /\ UNCHANGED <<regVars, flowVars, ratio, staleVars, imgVars, d_site, d_base,
                   d_page_links>>

NextDiscover ==
    \/ ScotiabankFetch
    \/ BanescoFetch
    \/ BancoGeneralFetch
    \/ BancoNacionalFetch

DiscoverSpec == InitDiscover /\ [][NextDiscover]_vars

\* the discoverer keeps running while it has a page to fetch
DiscoverLiveSpec == DiscoverSpec /\ WF_vars(NextDiscover)

\* ------------------------------------------- persistence calls on image lists
InitImages ==
    /\ RegistryEmpty
    /\ run = 1
    /\ FlowStart
    /\ StaleIdle
    /\ DiscIdle
    /\ m_in \in SeqsUpTo(Images, MaxImgs)
    /\ m_existing \in SUBSET Images
    /\ m_pc = "ready"
    /\ m_kind = "none"
    /\ m_req = <<>>
    /\ m_inserted = <<>>
    /\ m_ret = "none"

Persisted(kind, o) ==
    /\ m_pc' = IF o.send THEN "sent" ELSE "quiet"
    /\ m_kind' = kind
    /\ m_req' = o.items
    /\ m_inserted' = IF o.img_stored THEN o.items ELSE <<>>
    /\ m_ret' = o.ret
    /\ UNCHANGED <<regVars, flowVars, ratio, staleVars, discVars, m_in, m_existing>>

\* directus_tasks.py save_property_data(property_data)
SaveDirectus ==
    /\ m_pc = "ready"
    /\ \E rec \in Statuses, img \in Statuses :
        Persisted("save", SaveOnce(m_in, rec, img))

\* global-bank.py save_property_data(property_data)
SaveGlobalBank ==
    /\ m_pc = "ready"
    /\ \E rec \in Statuses, img \in Statuses :
        Persisted("save-global-bank", GbSaveOnce(m_in, rec, img))

\* directus_tasks.py update_property_data(id, property_data, existing_image_urls)
UpdateDirectus ==
    /\ m_pc = "ready"
    /\ \E rec \in Statuses, img \in Statuses :
        Persisted("update", UpdateOnce(m_in, m_existing, rec, img))

NextImages ==
    \/ SaveDirectus
    \/ SaveGlobalBank
    \/ UpdateDirectus

ImageSpec == InitImages /\ [][NextImages]_vars

\* ------------------------------------------------- stale link reprocessing
\* company tags found on registered links
SourceTags == {"caja-de-ahorros", "banesco"}

\* the if/elif chain that routes a stale item to the scraper of its company
HasExtractor_All(company) == TRUE

DispatchTable == {"caja-de-ahorros", "banco-general", "global-bank"}

HasExtractor(company) == company \in DispatchTable

\* how one item of the GraphQL answer can be formed
Shapes == {"ok", "no-link", "no-id", "no-data", "no-data-id", "bad-images"}

\* one element of data.repossessed_assets_links, for the link with URL u
StaleItem(u) ==
    [url |-> u,
     company |-> links[u].company,
     link |-> s_shape[u] # "no-link",
     id |-> s_shape[u] # "no-id",
     scrape_data |-> IF s_shape[u] = "no-data" \/ records[u] = 0 THEN "empty"
                     ELSE IF s_shape[u] = "no-data-id" THEN "no-id"
                     ELSE "ok",
     images_ok |-> s_shape[u] # "bad-images",
     scraped_images |-> images[u]]

\* scrape_data = stale_link.get("scrape_data", []) must be non-empty and its
\* first entry must carry an id, else the item is failed
HasRecordId_Assumed(it) == TRUE

HasRecordId(it) == it.scrape_data = "ok"

\* `if not link or not link_id:`
MissingLinkOrId_Ignored(it) == FALSE

MissingLinkOrId(it) == ~it.link \/ ~it.id

\* existing_image_urls = [item["source_url"] for item in scraped_images ...]
ExistingImageUrls_None(it) == {}

ExistingImageUrls(it) == Range(it.scraped_images)

\* `if update_success:` before mark_link_as_fresh
ShouldMarkFresh_Always(update_success) == TRUE

ShouldMarkFresh(update_success) == update_success

\* an exception inside the item's try block is caught by `except Exception`
\* and the for loop takes the next item
OnItemError_Raise == "raised"

OnItemError == "item"

\* get_all_stale_links_from_directus raises; `except Exception as flow_error`
\* logs and raises again
OnStaleFetchError_Swallow == "done"

OnStaleFetchError == "raised"

\* the image lists a link can hold when it is flagged stale
InitialImages == {<<>>, <<"A">>}

\* the registry as a stale run finds it: catalog links scraped earlier, each
\* with its record, now flagged stale
InitStale ==
    /\ \E co \in [CatalogUrls -> SourceTags] :
        links = [u \in AllUrls |->
                   IF u \in CatalogUrls
                   THEN [reg |-> TRUE, is_scraped |-> TRUE, is_stale |-> TRUE,
                         company |-> co[u]]
                   ELSE NoRow]
    /\ records = [u \in AllUrls |-> IF u \in CatalogUrls THEN 1 ELSE 0]
    /\ record_data = [u \in AllUrls |-> IF u \in CatalogUrls THEN "old" ELSE "none"]
    /\ \E im \in [CatalogUrls -> InitialImages] :
        images = [u \in AllUrls |-> IF u \in CatalogUrls THEN im[u] ELSE <<>>]
    \* a link whose page shows no image holds none
    /\ \A u \in CatalogUrls : PageImages(u) = <<>> => images[u] = <<>>
    /\ run = 1
    /\ FlowStart
    /\ DiscIdle
    /\ ImgIdle
    /\ s_pc = "fetch"
    /\ \E sh \in [CatalogUrls -> Shapes] :
        s_shape = [u \in AllUrls |-> IF u \in CatalogUrls THEN sh[u] ELSE "ok"]
    \* an item of a company without scraper fails at the dispatch whatever else
    \* it lacks: the ill-formed items are those of a company with a scraper
    /\ \A u \in CatalogUrls : ~HasExtractor(links[u].company) => s_shape[u] = "ok"
    /\ s_list = <<>>
    /\ s_idx = 0
    /\ s_images = <<>>
    /\ s_existing = {}
    /\ s_attempt = 0
    /\ s_total_processed = 0
    /\ s_total_failed = 0
    /\ s_calls = <<>>
    /\ s_update_ret = Idle
    /\ s_fresh_ret = Idle

\* stale_links = await get_all_stale_links_from_directus()
\* if not stale_links or not ...["repossessed_assets_links"]: return
GetAllStaleLinks ==
    /\ s_pc = "fetch"
    /\ \E st \in Statuses, errors \in BOOLEAN :
        LET bad == st # 200 \/ errors
            nf == IF bad THEN 1 ELSE 0
            stale == SortedSeq({u \in AllUrls : links[u].reg /\ links[u].is_stale})
        IN
        /\ errors => st = 200
        /\ faults + nf <= MaxFaults
        /\ faults' = faults + nf
        /\ IF bad
           THEN /\ s_pc' = OnStaleFetchError
                /\ UNCHANGED <<s_list, s_idx>>
           ELSE /\ s_list' = [k \in DOMAIN stale |-> StaleItem(stale[k])]
                /\ s_idx' = 1
                /\ s_pc' = IF NothingToDo(s_list') THEN "done" ELSE "item"
    /\ UNCHANGED <<regVars, flowLocals, run, ratio, discVars, imgVars, s_shape,
                   s_images, s_existing, s_attempt, s_total_processed,
                   s_total_failed, s_calls, s_update_ret, s_fresh_ret>>

\* `for link_data in links_to_process`: the item after the k-th
NextItem_Skip(k) == k + 2

NextItem(k) == k + 1

\* the end of one iteration of `for link_data in links_to_process`
FinishItem(processed, failed) ==
    /\ s_total_processed' = s_total_processed + processed
    /\ s_total_failed' = s_total_failed + failed
    /\ s_idx' = NextItem(s_idx)
    /\ s_pc' = "item"
    /\ UNCHANGED ratio

\* `except Exception as link_error` (and `as update_error`): total_failed += 1
CatchItem_Uncounted ==
    /\ s_idx' = NextItem(s_idx)
    /\ s_pc' = OnItemError
    /\ UNCHANGED <<s_total_processed, s_total_failed, ratio>>

CatchItem ==
    /\ s_total_failed' = s_total_failed + 1
    /\ s_idx' = NextItem(s_idx)
    /\ s_pc' = OnItemError
    /\ UNCHANGED <<s_total_processed, ratio>>

\* one entry of the log of calls a stale run makes: the extractor or the
\* registry request, the item it is for, whether it went through, whether it
\* raised, the images sent
Call(op, ok, raised, items) ==
    [op |-> op, idx |-> s_idx, ok |-> ok, raised |-> raised, items |-> items]

\* after the last item the run logs processed, failed, total and the ratio
StaleFinish ==
    /\ s_pc = "item"
    /\ s_idx > Len(s_list)
    /\ ratio' = Ratio(s_total_processed, Len(s_list))
    /\ s_pc' = "done"
    /\ UNCHANGED <<regVars, flowVars, discVars, imgVars, s_shape, s_list, s_idx,
                   s_images, s_existing, s_attempt, s_total_processed,
                   s_total_failed, s_calls, s_update_ret, s_fresh_ret>>

\* the item's link and id are read and its company is routed
StaleCheckItem ==
    /\ s_pc = "item"
    /\ s_idx <= Len(s_list)
    /\ LET it == s_list[s_idx] IN
       IF MissingLinkOrId(it)
       THEN FinishItem(0, 1)
       ELSE IF ~HasExtractor(it.company)
       THEN FinishItem(0, 1)
       ELSE /\ s_pc' = "extract"
            /\ UNCHANGED <<s_idx, s_total_processed, s_total_failed, ratio>>
    /\ UNCHANGED <<regVars, flowVars, discVars, imgVars, s_shape, s_list,
                   s_images, s_existing, s_attempt, s_calls, s_update_ret,
                   s_fresh_ret>>

\* scraped_data = scrape_property_page_<company>(link_to_scrape), then the
\* record id and the existing image list are read from the item
StaleExtract ==
    /\ s_pc = "extract"
    /\ LET it == s_list[s_idx] IN
       \E o \in {"data", "empty", "raised"} :
        /\ o # "data" => faults < MaxFaults
        /\ faults' = IF o = "data" THEN faults ELSE faults + 1
        /\ s_calls' = Append(s_calls, Call("extract", o = "data", o = "raised", <<>>))
        /\ IF o = "raised"
           THEN /\ CatchItem
                /\ UNCHANGED <<s_images, s_existing, s_attempt>>
           ELSE IF o = "empty" \/ ~HasRecordId(it)
           THEN /\ FinishItem(0, 1)
                /\ UNCHANGED <<s_images, s_existing, s_attempt>>
           ELSE IF ~it.images_ok
           THEN /\ CatchItem
                /\ UNCHANGED <<s_images, s_existing, s_attempt>>
           ELSE /\ s_existing' = ExistingImageUrls(it)
                /\ s_images' = PageImages(it.url)
                /\ s_attempt' = 0
                /\ s_pc' = "update"
                /\ UNCHANGED <<s_idx, s_total_processed, s_total_failed, ratio>>
    /\ UNCHANGED <<regVars, flowLocals, run, discVars, imgVars, s_shape, s_list,
                   s_update_ret, s_fresh_ret>>

\* one attempt of update_property_data (task with retries=3); the images are
\* popped from property_data by the first attempt
StaleUpdateAttempt ==
    /\ s_pc = "update"
    /\ LET u == s_list[s_idx].url IN
       \E rec \in Statuses, img \in Statuses :
          LET o == UpdateOnce(s_images, s_existing, rec, img)
              bad == rec # 200 \/ (o.send /\ img # 200)
              nf == IF s_attempt = 0 /\ bad THEN 1 ELSE 0
          IN
          /\ o.send \/ img = 200
          /\ faults + nf <= MaxFaults
          /\ faults' = faults + nf
          /\ s_images' = <<>>
          /\ record_data' = [record_data EXCEPT ![u] = IF o.rec_stored THEN "page" ELSE @]
          /\ images' = [images EXCEPT ![u] = IF o.img_stored THEN @ \o o.items ELSE @]
          /\ s_calls' = Append(s_calls, Call("update", o.rec_stored, o.raised, o.items))
          /\ IF o.raised /\ s_attempt < retries
             THEN /\ s_attempt' = s_attempt + 1
                  /\ UNCHANGED <<s_pc, s_idx, s_total_processed, s_total_failed,
                                 ratio, s_update_ret>>
             ELSE /\ s_update_ret' = [s_update_ret EXCEPT ![u] = o.ret]
                  /\ UNCHANGED s_attempt
                  /\ IF o.ret = "raised"
                     THEN CatchItem
                     ELSE IF ShouldMarkFresh(o.ret = "true")
                     THEN /\ s_pc' = "fresh"
                          /\ UNCHANGED <<s_idx, s_total_processed, s_total_failed, ratio>>
                     ELSE FinishItem(0, 1)
    /\ UNCHANGED <<links, records, flowLocals, run, discVars, imgVars, s_shape,
                   s_list, s_existing, s_fresh_ret>>

\* mark_success = await mark_link_as_fresh(link_id)
StaleMarkFresh ==
    /\ s_pc = "fresh"
    /\ LET u == s_list[s_idx].url IN
       \E st \in Statuses :
        /\ faults + Fault(st) <= MaxFaults
        /\ faults' = faults + Fault(st)
        /\ links' = [links EXCEPT ![u].is_stale = @ /\ ~Is2xx(st)]
        /\ s_fresh_ret' = [s_fresh_ret EXCEPT ![u] =
                             IF st = 0 THEN "raised"
                             ELSE IF st = 200 THEN "true" ELSE "false"]
        /\ s_calls' = Append(s_calls, Call("fresh", Is2xx(st), st = 0, <<>>))
        /\ IF st = 0 THEN CatchItem
           ELSE IF st = 200 THEN FinishItem(1, 0)
           ELSE FinishItem(0, 1)
    /\ UNCHANGED <<records, images, record_data, flowLocals, run, discVars,
                   imgVars, s_shape, s_list, s_images, s_existing, s_attempt,
                   s_update_ret>>

\* the scheduler starts reprocess_stale_links again
StaleNextRun ==
    /\ s_pc \in {"done", "raised"}
    /\ run < MaxRuns
    /\ run' = run + 1
    /\ s_pc' = "fetch"
    /\ s_list' = <<>>
    /\ s_idx' = 0
    /\ s_images' = <<>>
    /\ s_existing' = {}
    /\ s_attempt' = 0
    /\ s_total_processed' = 0
    /\ s_total_failed' = 0
    /\ s_calls' = <<>>
    /\ s_update_ret' = Idle
    /\ s_fresh_ret' = Idle
    /\ ratio' = NoRatio
    /\ UNCHANGED <<regVars, flowLocals, faults, discVars, imgVars, s_shape>>

NextStale ==
    \/ GetAllStaleLinks
    \/ StaleCheckItem
    \/ StaleExtract
    \/ StaleUpdateAttempt
    \/ StaleMarkFresh
    \/ StaleFinish
    \/ StaleNextRun

StaleSpec == InitStale /\ [][NextStale]_vars

\* the deployment starts the flow over and over; the runs after run MaxRuns
\* are not told apart
StaleRunAgain ==
    /\ s_pc \in {"done", "raised"}
    /\ run = MaxRuns
    /\ s_pc' = "fetch"
    /\ s_list' = <<>>
    /\ s_idx' = 0
    /\ s_images' = <<>>
    /\ s_existing' = {}
    /\ s_attempt' = 0
    /\ s_total_processed' = 0
    /\ s_total_failed' = 0
    /\ s_calls' = <<>>
    /\ s_update_ret' = Idle
    /\ s_fresh_ret' = Idle
    /\ ratio' = NoRatio
    /\ UNCHANGED <<regVars, flowLocals, run, faults, discVars, imgVars, s_shape>>

NextStaleLive ==
    \/ NextStale
    \/ StaleRunAgain

\* stale runs without end, each one carried through; the calls that fail are
\* at most MaxFaults, so from some run on every call succeeds
StaleLiveSpec == InitStale /\ [][NextStaleLive]_vars /\ WF_vars(NextStaleLive)

\* ------------------------------------------------------- either entry point
\* one of the two deployed flows, the sync flow of a source or the stale
\* reprocessing, run on its own
InitEntry == Init \/ InitStale

NextEntry ==
    \/ (s_pc = "idle" /\ Next)
    \/ NextStale

EntrySpec == InitEntry /\ [][NextEntry]_vars

\* a sync flow started on a registry that holds stale links, scraped or not
InitSyncOverStale ==
    /\ \E sc \in [CatalogUrls -> {"absent", "scraped", "unscraped"}] :
        /\ links = [u \in AllUrls |->
                      IF u \in CatalogUrls /\ sc[u] # "absent"
                      THEN [reg |-> TRUE, is_scraped |-> sc[u] = "scraped",
                            is_stale |-> TRUE, company |-> Company]
                      ELSE NoRow]
        /\ records = [u \in AllUrls |->
                        IF u \in CatalogUrls /\ sc[u] = "scraped" THEN 1 ELSE 0]
        /\ record_data = [u \in AllUrls |->
                            IF u \in CatalogUrls /\ sc[u] = "scraped" THEN "old" ELSE "none"]
    /\ images = [u \in AllUrls |-> <<>>]
    /\ run = 1
    /\ FlowStart
    /\ StaleIdle
    /\ DiscIdle
    /\ ImgIdle

InitFrame == InitSyncOverStale \/ InitStale

\* either flow, run on a registry that holds stale links
FrameSpec == InitFrame /\ [][NextEntry]_vars

\* ------------------------------------------------------------------ claims
\* the logged ratio is processed / total rounded to hundredths of a percent
IsRatioOf(r, processed, total) ==
    /\ r.kind = "value"
    /\ 2 * r.pct * total - 20000 * processed <= total
    /\ 20000 * processed - 2 * r.pct * total <= total

\* C11: a completed run with items reports processed / total; a run with no
\* items returns before the loop, reports no ratio and never divides by zero.
C11_Ratio ==
    /\ ratio.kind # "ZeroDivisionError"
    /\ pc \in {"batch", "wait", "handle", "save", "mark"} => unscraped_links # <<>>
    /\ s_pc \in {"item", "extract", "update", "fresh"} => s_list # <<>>
    /\ pc = "done" =>
        IF unscraped_links = <<>> THEN ratio = NoRatio
        ELSE IsRatioOf(ratio, total_processed, Len(unscraped_links))
    /\ s_pc = "done" =>
        IF s_list = <<>> THEN ratio = NoRatio
        ELSE IsRatioOf(ratio, s_total_processed, Len(s_list))

C11_Witness ==
    /\ s_pc = "done"
    /\ Len(s_list) = 2
    /\ s_total_processed = 1
    /\ ratio = [kind |-> "value", pct |-> 5000]

Worklist == DOMAIN unscraped_links

BatchOf(k) == (k - 1) \div batch_size

\* C1 (as stated): at the end of a run a worklist link has been marked scraped
\* if and only if save_property_data returned success for it.
C1_MarkedIffSaved ==
    pc = "done" =>
        \A k \in Worklist :
            links[unscraped_links[k]].is_scraped <=> save_ret[unscraped_links[k]] = "true"

\* C1 (amended): mark_link_as_scraped is called for a worklist link exactly when
\* its save returned success; a link is marked scraped only after a successful
\* save and only if the mark request itself got through; a save that returned
\* False or raised is never followed by a mark.
C1_MarkOnlyAfterSave ==
    \A k \in Worklist :
        LET u == unscraped_links[k] IN
        /\ mark_ret[u] # "none" => save_ret[u] = "true"
        /\ (k \in handled /\ save_ret[u] = "true") => mark_ret[u] # "none"
        /\ links[u].is_scraped => (save_ret[u] = "true" /\ mark_ret[u] \in {"true", "false"})
        /\ mark_ret[u] = "true" => links[u].is_scraped
        /\ save_ret[u] \in {"false", "raised"} => ~links[u].is_scraped

C1_Witness ==
    /\ pc = "done"
    /\ \E j, k \in Worklist :
        /\ save_ret[unscraped_links[j]] \in {"false", "raised"}
        /\ ~links[unscraped_links[j]].is_scraped
        /\ save_ret[unscraped_links[k]] = "true"
        /\ links[unscraped_links[k]].is_scraped

\* C2: a failed or empty extraction stops nothing: at the end of the run every
\* worklist item was dispatched and examined, every item with data was saved,
\* every saved item had its mark call, and the loop never aborts the run.
C2_BatchIsolation ==
    /\ pc = "aborted" => unscraped_links = <<>>
    /\ pc = "done" =>
        \A k \in Worklist :
            LET u == unscraped_links[k] IN
            /\ Terminal(fut[k])
            /\ k \in handled
            /\ fut[k] = "data" => save_ret[u] # "none"
            /\ save_ret[u] = "true" => mark_ret[u] # "none"
            /\ mark_ret[u] = "true" => links[u].is_scraped

C2_Witness ==
    /\ pc = "done"
    /\ \E j, k, m \in Worklist :
        /\ BatchOf(j) = 0 /\ fut[j] \in {"empty", "failed"}
        /\ BatchOf(k) = 0 /\ k # j /\ links[unscraped_links[k]].is_scraped
        /\ BatchOf(m) = 1 /\ links[unscraped_links[m]].is_scraped

\* C3: no link ever has more than one record in the registry.
C3_AtMostOneRecord == \A u \in AllUrls : records[u] <= 1

\* C4: an extraction of a later batch is dispatched only after every item of
\* every earlier batch is terminal and handled, and outcomes are handled only
\* once the whole batch is terminal.
C4_Barrier ==
    /\ \A j, k \in DOMAIN fut :
        (BatchOf(j) < BatchOf(k) /\ fut[k] # "none") =>
            (Terminal(fut[j]) /\ j \in handled)
    /\ pc \in {"handle", "save", "mark"} => \A k \in Batch(i) : Terminal(fut[k])

C4_Witness ==
    \E j, k \in DOMAIN fut :
        /\ BatchOf(k) = 1 /\ fut[k] = "running"
        /\ BatchOf(j) = 0 /\ fut[j] \in {"empty", "failed"}

\* C5: after the reconcile step new_links lists exactly the discovered URLs the
\* registry does not hold, each once; any other listing of the difference of
\* the same two sets has the same members.
C5_Reconcile ==
    pc = "add" =>
        /\ Range(new_links) = scraped_links_set \ existing_links
        /\ \A u \in AllUrls :
            u \in Range(new_links) <=> (u \in scraped_links_set /\ ~links[u].reg)
        /\ \A a, b \in DOMAIN new_links : new_links[a] = new_links[b] => a = b
        /\ \A nl \in Listings(Reconcile(scraped_links_set, existing_links)) :
            Range(nl) = Range(new_links)

C5_Witness ==
    /\ pc = "add"
    /\ new_links # <<>>
    /\ scraped_links_set \cap existing_links # {}

\* C6: when the reconciled list is empty the run sends no link insert.
C6_NoEmptyInsert == new_links = <<>> => link_posts = <<>>

C6_Witness ==
    /\ pc = "unscraped"
    /\ scraped_links_set # {}
    /\ new_links = <<>>

\* C7: when the reconciled list is not empty the run sends one link insert,
\* holding exactly the URLs of discovered minus existing, each once, each with
\* is_scraped = false and the company of the run; accepted, it registers them so.
C7_OneInsert ==
    (new_links # <<>> /\ pc # "add") =>
        /\ Len(link_posts) = 1
        /\ {link_posts[1][k].link : k \in DOMAIN link_posts[1]} =
               scraped_links_set \ existing_links
        /\ Len(link_posts[1]) = Cardinality(scraped_links_set \ existing_links)
        /\ \A k \in DOMAIN link_posts[1] :
            /\ link_posts[1][k].is_scraped = FALSE
            /\ link_posts[1][k].company = Company
        /\ pc = "unscraped" =>
            \A u \in scraped_links_set \ existing_links :
                links[u] = NewRow(Company)

C7_Witness ==
    /\ pc = "unscraped"
    /\ Len(new_links) = 2
    /\ existing_links = {}


Count(s, x) == Cardinality({k \in DOMAIN s : s[k] = x})

FirstIdx(s, x) == Min({k \in DOMAIN s : s[k] = x})

\* C8: the list a discoverer returns holds every collected URL exactly once,
\* in the order of first occurrence in the collected sequence.
C8_FirstSeenDedup ==
    d_pc = "returned" =>
        /\ Range(d_out) = Range(d_seen)
        /\ \A x \in Range(d_seen) : Count(d_out, x) = 1
        /\ \A a, b \in DOMAIN d_out :
            a < b => FirstIdx(d_seen, d_out[a]) < FirstIdx(d_seen, d_out[b])

C8_Witness ==
    /\ d_pc = "returned"
    /\ d_site = "banco-general"
    /\ d_base = BancoGeneralBases
    /\ Len(d_out) >= 2
    /\ d_seen[Len(d_seen)] = d_out[1]

\* C9: the image items of one persistence call have pairwise distinct
\* source_url, the first occurrences in extraction order.
C9_DistinctSourceUrls ==
    m_pc = "sent" =>
        /\ \A a, b \in DOMAIN m_req : m_req[a] = m_req[b] => a = b
        /\ \A a, b \in DOMAIN m_req :
            a < b => FirstIdx(m_in, m_req[a]) < FirstIdx(m_in, m_req[b])

\* position in m_in of the k-th extracted image that is not known
NthNew(k) ==
    CHOOSE p \in DOMAIN m_in :
        /\ m_in[p] \notin m_existing
        /\ Cardinality({q \in 1..p : m_in[q] \notin m_existing}) = k

C12_MissingIdSkipped ==
    /\ [](\A k \in DOMAIN s_calls :
            s_list[s_calls[k].idx].link /\ s_list[s_calls[k].idx].id)
    /\ [][(/\ s_pc = "item"
           /\ s_idx <= Len(s_list)
           /\ (~s_list[s_idx].link \/ ~s_list[s_idx].id))
          => (/\ s_total_failed' = s_total_failed + 1
              /\ s_total_processed' = s_total_processed
              /\ s_calls' = s_calls
              /\ regVars' = regVars
              /\ s_idx' = s_idx + 1
              /\ s_pc' = "item")]_vars

C12_Witness ==
    /\ s_pc = "done"
    /\ Len(s_list) = 2
    /\ ~s_list[1].id
    /\ s_total_failed = 1
    /\ s_total_processed = 1
    /\ ~links[s_list[2].url].is_stale

\* C13: mark_link_as_fresh is called for a link only after the update of that
\* link returned success in the same run; an update that returned False or
\* raised leaves the stale flag set and counts the item as failed.
C13_FreshOnlyAfterUpdate ==
    /\ [](\A u \in AllUrls :
            /\ s_fresh_ret[u] # "none" => s_update_ret[u] = "true"
            /\ s_update_ret[u] \in {"false", "raised"} => links[u].is_stale)
    /\ [](\A k \in DOMAIN s_calls :
            s_calls[k].op = "fresh" =>
                /\ k > 1
                /\ s_calls[k - 1].op = "update"
                /\ s_calls[k - 1].idx = s_calls[k].idx
                /\ s_calls[k - 1].ok)
    /\ [][\A u \in AllUrls :
            (s_update_ret[u] = "none" /\ s_update_ret'[u] \in {"false", "raised"})
            => (/\ s_total_failed' = s_total_failed + 1
                /\ s_total_processed' = s_total_processed
                /\ links' = links
                /\ s_pc' = "item")]_vars

C13_Witness ==
    /\ s_pc = "done"
    /\ \E u, v \in CatalogUrls :
        /\ s_update_ret[u] \in {"false", "raised"}
        /\ links[u].is_stale
        /\ s_fresh_ret[u] = "none"
        /\ s_update_ret[v] = "true"
        /\ s_fresh_ret[v] = "true"
        /\ ~links[v].is_stale

\* one application of the update to a link holding images E whose page shows P
Applied(E, P) == E \o UpdateImageItems(P, Range(E))

\* C14: when the update succeeded and the mark-fresh request then did not get
\* through, the update stays applied and the link stays stale; applying the
\* update again for the same page leaves the record and the images as one
\* application leaves them.
C14_ReapplyIdempotent ==
    /\ [](\A k \in DOMAIN s_calls :
            (s_calls[k].op = "fresh" /\ ~s_calls[k].ok) =>
                LET u == s_list[s_calls[k].idx].url IN
                /\ links[u].is_stale
                /\ s_update_ret[u] = "true"
                /\ record_data[u] = "page")
    /\ [](\A u \in CatalogUrls :
            \E E \in InitialImages :
                images[u] \in {E, Applied(E, PageImages(u))})
    /\ [][\A u \in CatalogUrls :
            (/\ s_pc = "update"
             /\ s_list[s_idx].url = u
             /\ record_data[u] = "page"
             /\ Range(PageImages(u)) \subseteq Range(images[u]))
            => (images'[u] = images[u] /\ record_data'[u] = record_data[u])]_vars

C14_Witness ==
    /\ run = 2
    /\ s_pc = "fresh"
    /\ s_update_ret[s_list[s_idx].url] = "true"
    /\ s_calls[Len(s_calls)] = Call("update", TRUE, FALSE, <<>>)
    /\ PageImages(s_list[s_idx].url) = <<"A", "B", "A">>
    /\ images[s_list[s_idx].url] = <<"A", "B", "A">>

\* C15: whatever the pages answer, errors included, every discoverer stops
\* after finitely many page requests.
C15_DiscoveryTerminates == <>(d_pc \in {"returned", "raised"})

\* the discoverers the claim about page errors names
PagedSites == {"banco-general", "banesco", "banco-nacional"}

\* C16: a page request that fails does not abort the discovery: pagination
\* goes on with the next page, and what the discoverer returns holds the links
\* of the other pages.
C16_ErrorIsSoft ==
    /\ [][(d_site \in PagedSites /\ d_pc = "fetch" /\ d_pc' # "fetch"
           /\ d_last' = "error") => FALSE]_vars
    /\ [][(d_site \in PagedSites /\ d_pc = "fetch" /\ d_last' = "error")
          => (d_page' = NextPage(d_page) /\ d_seen' = d_seen)]_vars
    /\ [](d_pc = "returned" => Range(d_out) = Range(d_seen))

\* C17: when the read of the existing links fails the run stops there: nothing
\* was inserted, scraped, saved or marked before it, and nothing is after it.
C17_ExistingReadFatal ==
    /\ [][(pc = "existing" /\ faults' # faults)
          => (/\ pc' = "aborted"
              /\ regVars' = regVars
              /\ link_posts' = <<>>
              /\ fut' = <<>>
              /\ save_ret' = Idle
              /\ mark_ret' = Idle
              /\ img_req' = NoReq)]_vars
    /\ [][pc = "start" => regVars' = regVars]_vars
    /\ [][pc = "aborted"
          => (pc' = "start" /\ run' = run + 1 /\ regVars' = regVars)]_vars

C17_Witness ==
    /\ pc = "aborted"
    /\ run = 2
    /\ scraped_links_set # {}
    /\ existing_links = {}
    /\ link_posts = <<>>
    /\ \E u \in CatalogUrls : links[u].reg

\* C18: when the fetch of the stale set fails the stale run raises to its
\* caller: no item is processed, nothing is counted or reported, and the
\* registry is left as it was.
C18_StaleFetchFatal ==
    /\ [][(s_pc = "fetch" /\ faults' # faults)
          => (/\ s_pc' = "raised"
              /\ regVars' = regVars
              /\ s_list' = <<>>
              /\ s_calls' = <<>>)]_vars
    /\ [](s_pc = "raised" =>
            /\ s_calls = <<>>
            /\ s_total_processed = 0
            /\ s_total_failed = 0
            /\ ratio = NoRatio)
    /\ [][s_pc = "raised"
          => (s_pc' = "fetch" /\ run' = run + 1 /\ regVars' = regVars)]_vars

C18_Witness ==
    /\ s_pc = "raised"
    /\ faults = 1
    /\ \A u \in CatalogUrls :
        links[u].is_stale /\ record_data[u] = "old" /\ images[u] \in InitialImages

\* the step taken meets an exception inside the item's try block
ItemRaises ==
    \/ /\ s_pc = "extract"
       /\ Len(s_calls') > Len(s_calls)
       /\ \/ s_calls'[Len(s_calls')].raised
          \/ /\ s_calls'[Len(s_calls')].ok
             /\ s_list[s_idx].scrape_data = "ok"
             /\ ~s_list[s_idx].images_ok
    \/ /\ s_pc = "update"
       /\ s_update_ret'[s_list[s_idx].url] = "raised"
    \/ /\ s_pc = "fresh"
       /\ s_fresh_ret'[s_list[s_idx].url] = "raised"

\* C19: an exception met while one item is processed is caught and counted as
\* one failed item, and the loop takes the next item; the run itself never
\* fails once the stale list was fetched.
C19_ItemErrorCaught ==
    /\ [][ItemRaises
          => (/\ s_total_failed' = s_total_failed + 1
              /\ s_total_processed' = s_total_processed
              /\ s_idx' = s_idx + 1
              /\ s_pc' = "item")]_vars
    /\ [](s_pc = "raised" => s_list = <<>>)
    /\ [](s_pc = "done" => s_idx = Len(s_list) + 1)

C19_Witness ==
    /\ s_pc = "done"
    /\ Len(s_list) = 2
    /\ s_calls # <<>>
    /\ s_calls[1].idx = 1
    /\ s_calls[1].raised
    /\ s_fresh_ret[s_list[2].url] = "true"
    /\ s_total_failed = 1
    /\ s_total_processed = 1

\* C20: an item whose company has no scraper in the dispatch is counted as
\* one failed item; nothing is called for it, the registry is left as it was,
\* and the loop goes to the next item.
C20_UnknownSourceSkipped ==
    /\ [](\A k \in DOMAIN s_calls :
            s_list[s_calls[k].idx].company \in
                {"caja-de-ahorros", "banco-general", "global-bank"})
    /\ [][(/\ s_pc = "item"
           /\ s_idx <= Len(s_list)
           /\ s_list[s_idx].link
           /\ s_list[s_idx].id
           /\ s_list[s_idx].company \notin
                {"caja-de-ahorros", "banco-general", "global-bank"})
          => (/\ s_total_failed' = s_total_failed + 1
              /\ s_total_processed' = s_total_processed
              /\ s_calls' = s_calls
              /\ regVars' = regVars
              /\ s_idx' = s_idx + 1
              /\ s_pc' = "item")]_vars
    /\ [](s_pc = "raised" => s_list = <<>>)

C20_Witness ==
    /\ s_pc = "done"
    /\ Len(s_list) = 2
    /\ s_list[1].company = "banesco"
    /\ s_list[1].link
    /\ s_list[1].id
    /\ s_total_failed = 1
    /\ s_total_processed = 1
    /\ ~links[s_list[2].url].is_stale

\* the calls of the run made for the item at position k of the list
CallsFor(k) == SelectSeq(s_calls, LAMBDA c : c.idx = k)

\* the order of the calls one item can get
OpRank(op) == IF op = "extract" THEN 1 ELSE IF op = "update" THEN 2 ELSE 3

\* C21: the stale items are taken in the order of the list, one at a time:
\* every call is for the item the loop is at, the calls of an item come
\* before every call of a later item, and no item is passed over.
C21_InOrderOneAtATime ==
    /\ [](\A j, k \in DOMAIN s_calls :
            j < k =>
                /\ s_calls[j].idx <= s_calls[k].idx
                /\ s_calls[j].idx = s_calls[k].idx =>
                       OpRank(s_calls[j].op) <= OpRank(s_calls[k].op))
    /\ [](\A k \in DOMAIN s_calls : s_calls[k].idx \in 1..Len(s_list))
    /\ [][s_calls' # s_calls =>
            (s_calls' = <<>> \/ s_calls'[Len(s_calls')].idx = s_idx)]_vars
    /\ [][s_idx' # s_idx => (s_idx' = s_idx + 1 \/ s_pc' = "fetch" \/ s_pc = "fetch")]_vars
    /\ [](s_pc = "done" => s_idx = Len(s_list) + 1)

C21_Witness ==
    /\ s_pc = "done"
    /\ Len(s_list) = 2
    /\ Len(CallsFor(1)) = 3
    /\ Len(CallsFor(2)) = 3
    /\ s_calls = CallsFor(1) \o CallsFor(2)

\* C22: a call of save_property_data whose record write succeeded returns
\* success whatever becomes of the image write that follows.
C22_ImageFailureOnlyLogged ==
    (m_kind = "save" /\ m_pc = "sent") => m_ret = "true"

\* C23: a raising registry operation raises exactly when the response is not
\* 2xx: the link insert goes through (the flow goes on to read the unscraped
\* links) exactly when the registry accepted it.
C23_RaiseIffNot2xx ==
    [][(pc = "add" /\ link_posts' # link_posts)
       => ((links' # links) <=> (pc' = "unscraped"))]_vars

\* C24: a boolean registry operation returns False exactly when its request
\* was not answered 2xx: a mark-scraped call that returned False left the
\* link unscraped and one that returned True set the flag.
C24_FalseIffNot2xx ==
    \A u \in AllUrls :
        /\ mark_ret[u] = "false" => ~links[u].is_scraped
        /\ mark_ret[u] = "true" => links[u].is_scraped

\* C25: an item whose extraction came back empty or failed gets no save call
\* and no mark call and stays unscraped; the next run has it in its worklist.
C25_EmptyOrFailedLeftUnscraped ==
    /\ \A k \in Worklist :
        fut[k] \in {"empty", "failed"} =>
            /\ save_ret[unscraped_links[k]] = "none"
            /\ mark_ret[unscraped_links[k]] = "none"
            /\ img_req.link_id # unscraped_links[k]
            /\ ~links[unscraped_links[k]].is_scraped
    /\ pc \in {"start", "existing", "add", "unscraped"} =>
        \A u \in carried : links[u].reg /\ ~links[u].is_scraped
    /\ pc \in {"batch", "wait", "handle", "save", "mark", "done"} =>
        carried \subseteq Range(unscraped_links)

C25_Witness ==
    /\ run = 2
    /\ pc = "wait"
    /\ carried # {}
    /\ \E k \in Worklist : unscraped_links[k] \in carried /\ fut[k] = "running"

\* C26: a stale item whose scrape_data list is empty or whose record id is
\* empty is counted as failed; neither the update nor mark_link_as_fresh is
\* called for it, and the registry is left as it was.
C26_NoRecordIdFailed ==
    /\ [](\A k \in DOMAIN s_calls :
            s_calls[k].op \in {"update", "fresh"} =>
                s_list[s_calls[k].idx].scrape_data = "ok")
    /\ [][(s_pc = "extract" /\ s_list[s_idx].scrape_data \in {"empty", "no-id"})
          => (/\ s_total_failed' = s_total_failed + 1
              /\ s_total_processed' = s_total_processed
              /\ regVars' = regVars
              /\ s_idx' = s_idx + 1
              /\ s_pc' = "item")]_vars

C26_Witness ==
    /\ s_pc = "done"
    /\ Len(s_list) = 2
    /\ s_list[1].scrape_data = "empty"
    /\ s_list[2].scrape_data = "no-id"
    /\ Len(s_calls) = 2
    /\ \A k \in 1..2 : s_calls[k].op = "extract" /\ s_calls[k].ok
    /\ s_total_failed = 2
    /\ \A k \in 1..2 : links[s_list[k].url].is_stale

\* C27: between two consecutive page requests of a paginated discoverer the
\* fixed pause has run: a request that is not the first of the discovery is
\* made only after time.sleep.
C27_PauseBetweenFetches ==
    [][(d_site \in PagedSites /\ d_pc = "fetch" /\ d_last # "start") => d_gap']_vars

\* the extractions in flight
InFlight == {k \in DOMAIN fut : fut[k] = "running"}

\* C28: the registry is written, and save or mark is called, only while no
\* extraction is in flight; an extraction that ends changes its own outcome
\* and nothing else of the run.
C28_WritesAfterBarrier ==
    /\ [][(\/ regVars' # regVars
           \/ save_ret' # save_ret
           \/ mark_ret' # mark_ret
           \/ img_req' # img_req) => InFlight = {}]_vars
    /\ [](pc \in {"save", "mark"} => InFlight = {})
    /\ [][\A k \in InFlight :
            fut'[k] # "running" =>
                /\ \A j \in DOMAIN fut \ {k} : fut'[j] = fut[j]
                /\ regVars' = regVars
                /\ <<done, handled, total_processed, save_ret, mark_ret,
                      img_req, unscraped_links, i>>' =
                   <<done, handled, total_processed, save_ret, mark_ret,
                     img_req, unscraped_links, i>>]_vars

C28_Witness ==
    \E j, k \in Worklist :
        /\ BatchOf(j) = 0 /\ records[unscraped_links[j]] = 1
        /\ save_ret[unscraped_links[j]] = "true"
        /\ mark_ret[unscraped_links[j]] = "true"
        /\ links[unscraped_links[j]].is_scraped
        /\ BatchOf(k) = 1 /\ fut[k] = "running"

\* the positions a step dispatches to the extractor
Dispatched == {k \in DOMAIN fut : fut[k] # "running" /\ fut'[k] = "running"}

\* C29: the worklist is cut into consecutive batches: a step dispatches the
\* next not yet dispatched positions, 5 of them, or the 1 to 5 that are left;
\* no position is dispatched twice, none is left out, no batch is empty.
C29_Partition ==
    /\ [][DOMAIN fut = DOMAIN fut' =>
            /\ \A k \in Dispatched : fut[k] = "none"
            /\ \A k \in DOMAIN fut : fut[k] # "none" => fut'[k] # "none"
            /\ Dispatched # {} =>
                \E lo, hi \in DOMAIN fut :
                    /\ Dispatched = lo..hi
                    /\ \A j \in 1..(lo - 1) : fut[j] # "none"
                    /\ \A j \in (hi + 1)..Len(unscraped_links) : fut'[j] = "none"
                    /\ hi - lo + 1 <= 5
                    /\ hi - lo + 1 < 5 => hi = Len(unscraped_links)]_vars
    /\ [][pc = "batch" => Dispatched # {}]_vars
    /\ [](pc = "done" => \A k \in Worklist : fut[k] # "none" /\ fut[k] # "running")

C29_Witness ==
    /\ pc = "done"
    /\ Len(unscraped_links) = batch_size + 1
    /\ \A k \in Worklist : Terminal(fut[k]) /\ k \in handled
    /\ \E k \in Worklist : BatchOf(k) = 1 /\ links[unscraped_links[k]].is_scraped

\* C30: never more than 5 extractions are in flight.
C30_BoundedInFlight == Cardinality(InFlight) <= 5

C30_Witness ==
    /\ Cardinality(InFlight) = 5
    /\ Len(unscraped_links) > 5

\* the positions of a run from the dispatch of its first batch to its end
Scraping == {"batch", "wait", "handle", "save", "mark"}

\* C31: a run reads the existing links, then inserts the new ones, then reads
\* the unscraped ones, then scrapes; while it scrapes, its worklist holds every
\* link it registered and every registered link that was unscraped when the
\* scrape began.
C31_StepOrder ==
    /\ [][pc' # pc =>
            /\ pc = "start" => pc' \in {"existing", "aborted"}
            /\ pc = "existing" => pc' \in {"add", "aborted"}
            /\ pc = "add" => pc' \in {"unscraped", "aborted"}
            /\ pc = "unscraped" => pc' \in {"batch", "done", "aborted"}
            /\ pc' = "batch" => pc \in {"unscraped", "handle"}
            /\ pc' = "unscraped" => pc = "add"
            /\ pc' = "add" => pc = "existing"]_vars
    /\ [](pc \in Scraping \cup {"done"} =>
            /\ \A k \in DOMAIN new_links :
                /\ links[new_links[k]].reg
                /\ new_links[k] \in Range(unscraped_links)
            /\ \A u \in AllUrls :
                (links[u].reg /\ ~links[u].is_scraped) => u \in Range(unscraped_links))

C31_Witness ==
    /\ run = 2
    /\ pc = "wait"
    /\ new_links # <<>>
    /\ carried # {}
    /\ \E j, k \in Worklist :
        /\ unscraped_links[j] \in Range(new_links)
        /\ unscraped_links[k] \in carried
        /\ fut[j] = "running" /\ fut[k] = "running"

\* C32: a page-numbered discoverer goes on to another page of the same listing
\* only after a page that gave links (or, in banco-general, after a request
\* that failed); a page without links or with the no-results marker ends the
\* listing, and what is returned holds the links of all the pages before it.
C32_StopAtFirstEmptyPage ==
    /\ [][(/\ d_site \in PagedSites
           /\ d_pc = "fetch"
           /\ d_last' \in {"page", "none"}
           /\ d_seen' = d_seen)
          => \/ d_pc' = "returned"
             \/ (d_site = "banco-general" /\ d_base' = d_base + 1 /\ d_page' = 1)]_vars
    /\ [][(/\ d_site \in PagedSites
           /\ d_pc = "fetch"
           /\ d_pc' = "fetch"
           /\ d_base' = d_base
           /\ d_page' # d_page)
          => (Len(d_seen') > Len(d_seen) \/ d_last' = "error")]_vars
    /\ []((d_site \in PagedSites /\ d_pc = "returned") =>
            /\ Range(d_out) = Range(d_seen)
            /\ \A j, k \in DOMAIN d_out : j # k => d_out[j] # d_out[k])

C32_Witness ==
    /\ d_site \in {"banco-nacional", "banesco"}
    /\ d_pc = "returned"
    /\ d_last = "page"
    /\ d_page = 2
    /\ Len(d_seen) = 2
    /\ Range(d_out) = Range(d_seen)

\* C33: when a stale run has completed, processed + failed = total; while it
\* runs, the two counters add up to the number of items already left behind.
C33_CountsAddUp ==
    /\ s_pc = "done" => s_total_processed + s_total_failed = Len(s_list)
    /\ s_pc \in {"item", "extract", "update", "fresh"} =>
        s_total_processed + s_total_failed = s_idx - 1

C33_Witness ==
    /\ s_pc = "done"
    /\ Len(s_list) = 2
    /\ s_total_processed = 1
    /\ s_total_failed = 1
    /\ \E k \in DOMAIN s_calls : s_calls[k].raised

\* C34: at the end of a run the processed count is the number of worklist
\* links the run marked scraped, and it is at most the size of the worklist.
C34_ProcessedIsMarked ==
    pc = "done" =>
        /\ total_processed =
             Cardinality({k \in Worklist : links[unscraped_links[k]].is_scraped})
        /\ total_processed <= Len(unscraped_links)

\* C35 (as stated): a link that is marked scraped has its record and every
\* deduplicated image of its detail page in the registry.
C35_ScrapedHasAllImages ==
    \A u \in AllUrls :
        links[u].is_scraped =>
            /\ records[u] >= 1
            /\ Range(SaveImageItems(PageImages(u))) \subseteq Range(images[u])

\* C35 (amended): a link that is marked scraped has a record in the registry,
\* stored by a save that returned success, and every image the registry
\* holds for it is an image of its detail page; images may be missing.
C35_ScrapedHasRecord ==
    /\ \A u \in AllUrls :
        links[u].is_scraped =>
            /\ records[u] >= 1
            /\ record_data[u] = "page"
            /\ Range(images[u]) \subseteq Range(PageImages(u))
    /\ \A k \in Worklist :
        links[unscraped_links[k]].is_scraped => save_ret[unscraped_links[k]] = "true"

C35_Witness ==
    \E k \in Worklist :
        LET u == unscraped_links[k] IN
        /\ links[u].is_scraped
        /\ records[u] = 1
        /\ PageImages(u) # <<>>
        /\ images[u] = SaveImageItems(PageImages(u))
        /\ mark_ret[u] = "true"

\* C36: a save that succeeds on a re-attempt leaves what a save that succeeds
\* first time leaves: one record of the link, and one image request with the
\* deduplicated images of the page.
C36_RetrySameOutcome ==
    (pc = "mark" /\ run = 1 /\ attempt >= 1) =>
        LET u == unscraped_links[cur] IN
        /\ records[u] = 1
        /\ PageImages(u) # <<>> =>
            /\ img_req.link_id = u
            /\ img_req.items = SaveImageItems(PageImages(u))

\* C37: under repeated stale runs whose calls succeed in the end, every stale
\* link with a url, an id and a record is marked fresh at some point, for
\* every source that has a sync flow.
C37_EventuallyFresh ==
    \A u \in CatalogUrls :
        (links[u].is_stale /\ s_shape[u] = "ok" /\ records[u] >= 1)
            ~> ~links[u].is_stale

\* C38: under repeated sync runs whose calls succeed in the end, every
\* registered unscraped link is marked scraped at some point; a link that is
\* marked scraped stays so and is never dispatched to the extractor again.
C38_EventuallyScraped ==
    /\ \A u \in AllUrls :
        (links[u].reg /\ ~links[u].is_scraped) ~> links[u].is_scraped
    /\ [][\A u \in AllUrls : links[u].is_scraped => links'[u].is_scraped]_vars
    /\ [][DOMAIN fut = DOMAIN fut' =>
            \A k \in Dispatched : ~links[unscraped_links[k]].is_scraped]_vars

C38_Witness ==
    /\ run = 2
    /\ pc = "wait"
    /\ \E u \in AllUrls :
        /\ links[u].is_scraped
        /\ u \notin Range(unscraped_links)
    /\ \E k \in Worklist :
        /\ unscraped_links[k] \in carried
        /\ fut[k] = "data"

\* whether sequence s begins with sequence p
IsPrefix(p, s) == Len(p) <= Len(s) /\ SubSeq(s, 1, Len(p)) = p

\* C39: a sync flow leaves every is_stale flag as it is and never takes
\* is_scraped back; a stale run leaves is_scraped, the set of links and the
\* number of records as they are: it only rewrites a record that exists, adds
\* images and clears is_stale.
C39_Frame ==
    /\ [][s_pc = "idle" =>
            \A u \in AllUrls :
                /\ links'[u].is_stale = links[u].is_stale
                /\ links[u].is_scraped => links'[u].is_scraped
                /\ links[u].reg => links'[u].reg]_vars
    /\ [][s_pc # "idle" =>
            \A u \in AllUrls :
                /\ links'[u].is_scraped = links[u].is_scraped
                /\ links'[u].reg = links[u].reg
                /\ links'[u].company = links[u].company
                /\ records'[u] = records[u]
                /\ record_data'[u] # record_data[u] => records[u] >= 1
                /\ IsPrefix(images[u], images'[u])
                /\ links'[u].is_stale => links[u].is_stale]_vars

C39_Witness ==
    /\ s_pc = "idle"
    /\ \E u, v \in AllUrls :
        /\ mark_ret[u] = "true"
        /\ links[u].is_scraped /\ links[u].is_stale
        /\ records[u] = 1
        /\ v # u
        /\ v \notin Range(unscraped_links)
        /\ links[v].is_scraped /\ links[v].is_stale

====
